---- MODULE Spec2Model ----
\* html-cache: a sorted two-column table (index of url digests, content of
\* compressed payloads) with a binary file format (byte_cache / html_cache),
\* and the search tree node that wraps one such table (cache_tree_node).
EXTENDS Integers, Sequences, FiniteSets, TLC

\* ---------------------------------------------------------------- bounds
MaxUrl == 3          \* identifiers (urls) are 1..MaxUrl
MaxPayload == 2      \* payloads (html_content) are 1..MaxPayload
MaxCalls == 5        \* calls made on a store that is only cached into and read
MaxFileUrl == 2      \* identifiers used over a store's whole life: 1..MaxFileUrl
MaxFileCalls == 4    \* calls made over a store's whole life
MaxThreshold == 2    \* split_threshold is drawn from 1..MaxThreshold
MaxTreeCalls == 3    \* insert / find / split calls made on a tree node

Urls == 1..MaxUrl
FileUrls == 1..MaxFileUrl
Payloads == 1..MaxPayload

\* ------------------------------------------------------ program constants
int_width == 5
hash_width == 32

\* Python's None as an optional result: <<>> is None, <<p>> is the value p.
None == <<>>
Some(p) == <<p>>

Min(a, b) == IF a < b THEN a ELSE b

VARIABLES
    index,        \* self.index: list of digests (each a sequence of bytes)
    content,      \* self.content: list of compressed payloads (sequences of bytes)
    attrs,        \* TRUE while the object has its index/content attributes
    byteorder,    \* self._byteorder = sys.byteorder of the host
    file,         \* the cache file: [exists |-> BOOLEAN, bytes |-> Seq(0..255)]
    parts,        \* what the last split() returned: <<>> or <<lesser, greater>>
    node,         \* the cache_tree_node: its four fields
    root,         \* cache_tree.root
    split_threshold, \* cache_tree.split_threshold
    last,         \* the last call: name, arguments, result, exception raised
    cached,       \* history: url -> payload of the most recent cache(url, .)
    snap,         \* history: (index, content) as they were at the last save()
    tlog,         \* history: the keys of the completed tree inserts, in order
    calls         \* history: the number of calls made so far

vars == <<index, content, attrs, byteorder, file, parts, node, root,
          split_threshold, last, cached, snap, tlog, calls>>

\* --------------------------------------------------------------- helpers
\* bytes comparison, as Python's < on bytes objects: lexicographic, a proper
\* prefix is smaller.
BytesLess(a, b) ==
    LET D == {i \in 1..Min(Len(a), Len(b)) : a[i] # b[i]}
    IN  IF D = {} THEN Len(a) < Len(b)
        ELSE LET i == CHOOSE d \in D : \A e \in D : d <= e
             IN  a[i] < b[i]

\* hashlib.sha256(url.encode('utf-8')).digest(): a fixed-width digest, distinct
\* for distinct urls within the bounds and not monotone in the url.
digest ==
    [url \in Urls |->
        LET h == (url * 5) % 11
        IN  [i \in 1..hash_width |->
                IF i = 1 THEN h \div 4 ELSE IF i = hash_width THEN h % 4 ELSE 0]]

hash_url(url) == digest[url]

\* The codec: compress gives a byte string whose length depends on the payload,
\* decompress inverts it and fails on bytes compress never produced.
compress(p) == [i \in 1..p |-> 16 * p + i]

IsCompressed(c) == \E p \in Payloads : compress(p) = c

decompress(c) == CHOOSE p \in Payloads : compress(p) = c

\* The while loop of _find_index: L and R as the loop variables.
RECURSIVE find_loop(_, _, _, _)
find_loop(idx, hashed, L, R) ==
    IF L <= R
    THEN LET m == (R - L) \div 2 + L
         IN  IF BytesLess(idx[m + 1], hashed) THEN find_loop(idx, hashed, m + 1, R)
             ELSE IF BytesLess(hashed, idx[m + 1]) THEN find_loop(idx, hashed, L, m - 1)
             ELSE <<m, TRUE>>
    ELSE <<L, FALSE>>

\* _find_index answering idx + 1 for a digest it does not find.
find_index_off_by_one(idx, hashed) ==
    IF idx = <<>> THEN <<0, FALSE>>
    ELSE LET r == find_loop(idx, hashed, 0, Len(idx) - 1)
         IN  IF r[2] THEN r ELSE <<r[1] + 1, FALSE>>

\* _find_index starting with R = len(index) - 2: the last key is never looked at.
find_index_short(idx, hashed) ==
    IF idx = <<>> THEN <<0, FALSE>>
    ELSE find_loop(idx, hashed, 0, Len(idx) - 2)

\* _find_index: (position, found); positions are 0-based as in the code.
find_index(idx, hashed) ==
    IF idx = <<>> THEN <<0, FALSE>>
    ELSE find_loop(idx, hashed, 0, Len(idx) - 1)

\* list.insert(i, x) with a 0-based i.
ListInsert(s, i, x) == SubSeq(s, 1, i) \o <<x>> \o SubSeq(s, i + 1, Len(s))

\* A call as the history records it: its name, arguments (ktype is the type of
\* the key a tree call was given), result and exception; lenBefore is the
\* length of index before the call; before is what the call is compared with
\* (cache: the payload cached under the url until then, split and load: the
\* two lists as they were).
Call(op, url, payload, ret, exc, lenBefore, before) ==
    [op |-> op, url |-> url, payload |-> payload, ktype |-> "", ret |-> ret,
     exc |-> exc, lenBefore |-> lenBefore, before |-> before]

NoCall == Call("init", 0, 0, None, "", 0, None)

\* cache_tree_node.__init__: the four fields are None. search_key is <<>> for
\* None (b'' and None are both false in "if self.search_key"), the others
\* name the object they refer to.
NewNode ==
    [search_key |-> None, left_child |-> "None", right_child |-> "None",
     cache |-> "None"]

\* ------------------------------------------------------------------ Init
Init ==
    /\ index = <<>>
    /\ content = <<>>
    /\ attrs = TRUE
    /\ byteorder \in {"little", "big"}
    /\ file = [exists |-> FALSE, bytes |-> <<>>]
    /\ parts = <<>>
    /\ node = NewNode
    /\ root = "None"
    /\ split_threshold = 0
    /\ last = NoCall
    /\ cached = [u \in Urls |-> None]
    /\ snap = <<>>
    /\ tlog = <<>>
    /\ calls = 0

\* -------------------------------------------------------- store: cache()
\* One more call is made; the tree is not touched.
StoreFrame ==
    /\ calls' = calls + 1
    /\ UNCHANGED <<byteorder, node, root, split_threshold, tlog>>

\* cache() without its in_cache branch: every call inserts.
cache_always_insert(idx, cnt, hashed, compressed) ==
    LET r == find_index(idx, hashed)
    IN  [index |-> ListInsert(idx, Min(r[1], Len(idx)), hashed),
         content |-> ListInsert(cnt, Min(r[1], Len(cnt)), compressed),
         exc |-> ""]

\* cache() whose in_cache branch leaves the old content in place.
cache_keep_old(idx, cnt, hashed, compressed) ==
    LET r == find_index(idx, hashed)
    IN  IF r[2] THEN [index |-> idx, content |-> cnt, exc |-> ""]
        ELSE [index |-> ListInsert(idx, Min(r[1], Len(idx)), hashed),
              content |-> ListInsert(cnt, Min(r[1], Len(cnt)), compressed),
              exc |-> ""]

\* The body of cache() after hashing and compressing, on the two lists: the
\* lists afterwards and the exception raised, if any. list.insert past the end
\* appends; an assignment past the end raises IndexError.
cache_lists(idx, cnt, hashed, compressed) ==
    LET r == find_index(idx, hashed)
    IN  IF r[2]
        THEN IF r[1] + 1 > Len(cnt)
             THEN [index |-> idx, content |-> cnt, exc |-> "IndexError"]
             ELSE [index |-> idx,
                   content |-> [cnt EXCEPT ![r[1] + 1] = compressed],
                   exc |-> ""]
        ELSE [index |-> ListInsert(idx, Min(r[1], Len(idx)), hashed),
              content |-> ListInsert(cnt, Min(r[1], Len(cnt)), compressed),
              exc |-> ""]

\* cache(url, html_content). On an offloaded object self.index is gone and
\* _find_index raises AttributeError.
Cache(url, p) ==
    /\ LET r == IF attrs
                THEN cache_lists(index, content, hash_url(url), compress(p))
                ELSE [index |-> index, content |-> content, exc |-> "AttributeError"]
       IN  /\ index' = r.index
           /\ content' = r.content
           /\ cached' = IF r.exc = "" THEN [cached EXCEPT ![url] = Some(p)] ELSE cached
           /\ last' = Call("cache", url, p, None, r.exc, Len(index), cached[url])
    /\ UNCHANGED <<attrs, file, parts, snap>>
    /\ StoreFrame

\* retrieve(url): None when the digest is not found, else the decompressed
\* content; decompress raises on bytes that compress did not produce.
retrieve_result(idx, cnt, url) ==
    LET r == find_index(idx, hash_url(url))
    IN  IF ~r[2] THEN [ret |-> None, exc |-> ""]
        ELSE IF r[1] + 1 > Len(cnt) THEN [ret |-> None, exc |-> "IndexError"]
        ELSE IF ~IsCompressed(cnt[r[1] + 1]) THEN [ret |-> None, exc |-> "error"]
        ELSE [ret |-> Some(decompress(cnt[r[1] + 1])), exc |-> ""]

Retrieve(url) ==
    /\ LET r == IF attrs THEN retrieve_result(index, content, url)
                ELSE [ret |-> None, exc |-> "AttributeError"]
       IN  last' = Call("retrieve", url, 0, r.ret, r.exc, Len(index), cached[url])
    /\ UNCHANGED <<index, content, attrs, file, parts, cached, snap>>
    /\ StoreFrame

\* is_cached answering with the position of _find_index instead of its flag.
is_cached_position(idx, url) == find_index(idx, hash_url(url))[1] # 0

\* is_cached(url): the flag of _find_index.
is_cached(idx, url) == find_index(idx, hash_url(url))[2]

IsCached(url) ==
    /\ last' = IF attrs
               THEN Call("is_cached", url, 0, <<is_cached(index, url)>>, "",
                         Len(index), cached[url])
               ELSE Call("is_cached", url, 0, None, "AttributeError",
                         Len(index), cached[url])
    /\ UNCHANGED <<index, content, attrs, file, parts, cached, snap>>
    /\ StoreFrame

\* ------------------------------------------------- store: the file format
\* int.to_bytes(width, byteorder), least significant byte first.
RECURSIVE to_bytes_little(_, _)
to_bytes_little(n, width) ==
    IF width = 0 THEN <<>> ELSE <<n % 256>> \o to_bytes_little(n \div 256, width - 1)

Reverse(s) == [i \in 1..Len(s) |-> s[Len(s) + 1 - i]]

to_bytes(n, width, order) ==
    IF order = "little" THEN to_bytes_little(n, width)
    ELSE Reverse(to_bytes_little(n, width))

\* int.from_bytes(bytes, byteorder); the empty string is 0.
RECURSIVE from_bytes_big(_)
from_bytes_big(b) ==
    IF b = <<>> THEN 0
    ELSE from_bytes_big(SubSeq(b, 1, Len(b) - 1)) * 256 + b[Len(b)]

from_bytes(b, order) ==
    IF order = "big" THEN from_bytes_big(b) ELSE from_bytes_big(Reverse(b))

\* f.write(hashed) for each hashed in self.index
RECURSIVE write_index(_)
write_index(idx) ==
    IF idx = <<>> THEN <<>> ELSE Head(idx) \o write_index(Tail(idx))

\* for each content: its length, then its bytes
RECURSIVE write_content(_, _)
write_content(cnt, order) ==
    IF cnt = <<>> THEN <<>>
    ELSE to_bytes(Len(Head(cnt)), int_width, order) \o Head(cnt)
         \o write_content(Tail(cnt), order)

\* the bytes save() writes
save_bytes(idx, cnt, order) ==
    to_bytes(Len(idx), int_width, order) \o write_index(idx) \o write_content(cnt, order)

\* f.read(n) at offset pos: at most n bytes, fewer (or none) at the end of file.
read(bytes, pos, n) == SubSeq(bytes, pos + 1, Min(pos + n, Len(bytes)))

\* the first loop of load() reading from the start of the file, the entry
\* count included
read_index_from_zero(bytes, n) ==
    [i \in 1..n |-> read(bytes, (i - 1) * hash_width, hash_width)]

\* the first loop of load(): index_size reads of _hash_width bytes
read_index(bytes, n) ==
    [i \in 1..n |-> read(bytes, int_width + (i - 1) * hash_width, hash_width)]

\* the second loop of load(): k times a length and that many bytes, from pos
RECURSIVE read_content(_, _, _, _)
read_content(bytes, pos, k, order) ==
    IF k = 0 THEN <<>>
    ELSE LET size == from_bytes(read(bytes, pos, int_width), order)
         IN  <<read(bytes, pos + int_width, size)>>
             \o read_content(bytes, pos + int_width + size, k - 1, order)

index_size(bytes, order) == from_bytes(read(bytes, 0, int_width), order)

\* save(): open(.., 'wb+') creates or empties the file before anything is
\* read from self, so on an offloaded object the file is left empty.
Save ==
    /\ file' = [exists |-> TRUE,
                bytes |-> IF attrs THEN save_bytes(index, content, byteorder) ELSE <<>>]
    /\ snap' = IF attrs THEN <<index, content>> ELSE <<>>
    /\ last' = Call("save", 0, 0, None, IF attrs THEN "" ELSE "AttributeError",
                    Len(index), None)
    /\ UNCHANGED <<index, content, attrs, parts, cached>>
    /\ StoreFrame

\* load() whose second loop runs one time too few.
load_lists_short(idx, cnt, bytes, order) ==
    LET n == index_size(bytes, order)
    IN  [index |-> idx \o read_index(bytes, n),
         content |-> cnt \o read_content(bytes, int_width + n * hash_width,
                                         IF n = 0 THEN 0 ELSE n - 1, order)]

\* load() that empties the lists before it reads.
load_lists_clearing(idx, cnt, bytes, order) ==
    LET n == index_size(bytes, order)
    IN  [index |-> read_index(bytes, n),
         content |-> read_content(bytes, int_width + n * hash_width, n, order)]

\* load() on the lists: both loops append to what is already there.
load_lists(idx, cnt, bytes, order) ==
    LET n == index_size(bytes, order)
    IN  [index |-> idx \o read_index(bytes, n),
         content |-> cnt \o read_content(bytes, int_width + n * hash_width, n, order)]

\* load(): FileNotFoundError without a file; on an offloaded object the first
\* append raises AttributeError (no append happens for an empty file).
Load ==
    /\ LET exc == IF ~file.exists THEN "FileNotFoundError"
                  ELSE IF ~attrs /\ index_size(file.bytes, byteorder) > 0
                       THEN "AttributeError" ELSE ""
           r == IF file.exists /\ attrs
                THEN load_lists(index, content, file.bytes, byteorder)
                ELSE [index |-> index, content |-> content]
       IN  /\ index' = r.index
           /\ content' = r.content
           /\ last' = Call("load", 0, 0, None, exc, Len(index), <<index, content>>)
    /\ UNCHANGED <<attrs, file, parts, cached, snap>>
    /\ StoreFrame

\* load_index(): the first loop of load() only.
LoadIndex ==
    /\ LET exc == IF ~file.exists THEN "FileNotFoundError"
                  ELSE IF ~attrs /\ index_size(file.bytes, byteorder) > 0
                       THEN "AttributeError" ELSE ""
       IN  /\ index' = IF file.exists /\ attrs
                       THEN index \o read_index(file.bytes, index_size(file.bytes, byteorder))
                       ELSE index
           /\ last' = Call("load_index", 0, 0, None, exc, Len(index), None)
    /\ UNCHANGED <<content, attrs, file, parts, cached, snap>>
    /\ StoreFrame

\* offload(): del self.index; del self.content
Offload ==
    /\ attrs' = FALSE
    /\ index' = <<>>
    /\ content' = <<>>
    /\ last' = Call("offload", 0, 0, None, IF attrs THEN "" ELSE "AttributeError",
                    Len(index), None)
    /\ UNCHANGED <<file, parts, cached, snap>>
    /\ StoreFrame

\* __init__: a new object on the same cache_file, with empty lists.
Construct ==
    /\ index' = <<>>
    /\ content' = <<>>
    /\ attrs' = TRUE
    /\ parts' = <<>>
    /\ cached' = [u \in Urls |-> None]
    /\ last' = Call("__init__", 0, 0, None, "", 0, None)
    /\ UNCHANGED <<file, snap>>
    /\ StoreFrame

\* The file load() opens is whatever is on disk under cache_file: here it has
\* lost its tail, either everything after the entry count or its last byte.
Truncate(keep) ==
    /\ file.exists
    /\ keep < Len(file.bytes)
    /\ file' = [file EXCEPT !.bytes = SubSeq(file.bytes, 1, keep)]
    /\ last' = Call("truncate", 0, 0, None, "", Len(index), None)
    /\ UNCHANGED <<index, content, attrs, parts, cached, snap>>
    /\ StoreFrame

\* ---------------------------------------------------------- store: split()
\* The name html_cache is bound nowhere in byte_cache.py (it imports hashlib,
\* brotli and sys and defines byte_cache only).
html_cache_bound == FALSE

\* Lines 134-138 of split(): the midpoint and the four slices.
split_slices(idx, cnt) ==
    LET midpoint == Len(idx) \div 2
    IN  <<[index |-> SubSeq(idx, 1, midpoint), content |-> SubSeq(cnt, 1, midpoint)],
          [index |-> SubSeq(idx, midpoint + 1, Len(idx)),
           content |-> SubSeq(idx, midpoint + 1, Len(idx))]>>

\* split(): what it returns (<<>> when it raises), the exception, and whether
\* the object still has its lists afterwards (offload() at line 140).
split_result(idx, cnt, has) ==
    IF ~html_cache_bound THEN [parts |-> <<>>, exc |-> "NameError", attrs |-> has]
    ELSE IF ~has THEN [parts |-> <<>>, exc |-> "AttributeError", attrs |-> has]
    ELSE [parts |-> split_slices(idx, cnt), exc |-> "", attrs |-> FALSE]

Split ==
    /\ LET r == split_result(index, content, attrs)
       IN  /\ parts' = r.parts
           /\ attrs' = r.attrs
           /\ index' = IF r.attrs THEN index ELSE <<>>
           /\ content' = IF r.attrs THEN content ELSE <<>>
           /\ last' = Call("split", 0, 0, None, r.exc, Len(index), <<index, content>>)
    /\ UNCHANGED <<file, cached, snap>>
    /\ StoreFrame

\* ------------------------------------------------------------ the tree
\* cache_tree.__init__(split_threshold): root is None.
NewTree(t) ==
    /\ split_threshold = 0
    /\ split_threshold' = t
    /\ root' = "None"
    /\ UNCHANGED <<index, content, attrs, byteorder, file, parts, node, last,
                   cached, snap, tlog, calls>>

\* No method of the tree or of the node assigns root or cache: the caller
\* makes the node a leaf by giving it the byte_cache, and the tree its root.
AttachLeaf ==
    /\ split_threshold # 0
    /\ node.cache = "None"
    /\ node' = [node EXCEPT !.cache = "byte_cache"]
    /\ root' = "node"
    /\ UNCHANGED <<index, content, attrs, byteorder, file, parts, split_threshold,
                   last, cached, snap, tlog, calls>>

\* The keys a tree call is given: a str (an identifier) or, as the signature
\* says, bytes (a digest).
StrKey(url) == [type |-> "str", url |-> url]
BytesKey(url) == [type |-> "bytes", url |-> url]
TreeKeys == {StrKey(url) : url \in Urls} \cup {BytesKey(url) : url \in Urls}

\* What "self.<child>.insert / find" does: the children are None or, after a
\* split, the two stores split() returned; neither has insert or find.
child_call(n, key) ==
    IF key.type = "str" THEN "TypeError" ELSE "AttributeError"

\* insert(key, value): the lists of the leaf's cache afterwards and the
\* exception raised. byte_cache.cache hashes its first argument with
\* url.encode, which bytes does not have.
node_insert(n, idx, cnt, has, key, value) ==
    LET raised(e) == [index |-> idx, content |-> cnt, exc |-> e]
    IN  IF n.search_key # None THEN raised(child_call(n, key))
        ELSE IF n.cache = "None" THEN raised("AttributeError")
        ELSE IF key.type = "bytes" THEN raised("AttributeError")
        ELSE IF ~has THEN raised("AttributeError")
        ELSE cache_lists(idx, cnt, hash_url(key.url), compress(value))

\* find(key): the value returned and the exception raised.
node_find(n, idx, cnt, has, key) ==
    LET raised(e) == [ret |-> None, exc |-> e]
    IN  IF n.search_key # None THEN raised(child_call(n, key))
        ELSE IF n.cache = "None" THEN raised("AttributeError")
        ELSE IF key.type = "bytes" THEN raised("AttributeError")
        ELSE IF ~has THEN raised("AttributeError")
        ELSE retrieve_result(idx, cnt, key.url)

\* cache_tree_node.split(): the node, what cache.split() returned, whether the
\* cache still has its lists, and the exception. Line 29 raises what
\* cache.split() raises; after a split() that returned, the cache is offloaded
\* and "del self.cache.index" raises AttributeError.
node_split(n, idx, cnt, has) ==
    IF n.cache = "None"
    THEN [node |-> n, parts |-> <<>>, attrs |-> has, exc |-> "AttributeError"]
    ELSE LET r == split_result(idx, cnt, has)
         IN  IF r.exc # "" THEN [node |-> n, parts |-> <<>>, attrs |-> has, exc |-> r.exc]
             ELSE IF ~r.attrs
             THEN [node |-> n, parts |-> r.parts, attrs |-> FALSE, exc |-> "AttributeError"]
             ELSE IF r.parts[2].index = <<>>
             THEN [node |-> [n EXCEPT !.cache = "None"], parts |-> r.parts,
                   attrs |-> FALSE, exc |-> "IndexError"]
             ELSE [node |-> [search_key |-> r.parts[2].index[1],
                             left_child |-> "lesser", right_child |-> "greater",
                             cache |-> "None"],
                   parts |-> r.parts, attrs |-> FALSE, exc |-> ""]

TreeFrame ==
    /\ calls' = calls + 1
    /\ UNCHANGED <<byteorder, file, root, split_threshold, snap>>

TreeInsert(key, value) ==
    /\ LET r == node_insert(node, index, content, attrs, key, value)
       IN  /\ index' = r.index
           /\ content' = r.content
           /\ cached' = IF r.exc = "" THEN [cached EXCEPT ![key.url] = Some(value)]
                        ELSE cached
           /\ tlog' = IF r.exc = "" THEN Append(tlog, key.url) ELSE tlog
           /\ last' = [Call("insert", key.url, value, None, r.exc, Len(index),
                            cached[key.url]) EXCEPT !.ktype = key.type]
    /\ UNCHANGED <<attrs, parts, node>>
    /\ TreeFrame

TreeFind(key) ==
    /\ LET r == node_find(node, index, content, attrs, key)
       IN  last' = [Call("find", key.url, 0, r.ret, r.exc, Len(index),
                         cached[key.url]) EXCEPT !.ktype = key.type]
    /\ UNCHANGED <<index, content, attrs, parts, node, cached, tlog>>
    /\ TreeFrame

TreeSplit ==
    /\ LET r == node_split(node, index, content, attrs)
       IN  /\ node' = r.node
           /\ parts' = r.parts
           /\ attrs' = r.attrs
           /\ index' = IF r.attrs THEN index ELSE <<>>
           /\ content' = IF r.attrs THEN content ELSE <<>>
           /\ last' = Call("node.split", 0, 0, None, r.exc, Len(index),
                           <<index, content>>)
    /\ UNCHANGED <<cached, tlog>>
    /\ TreeFrame

\* ------------------------------------------------------- specifications
Within(n) == calls < n

\* A store that only ever sees cache / retrieve / is_cached calls.
NextUpsert ==
    \/ \E url \in Urls, p \in Payloads : Within(MaxCalls) /\ Cache(url, p)
    \/ \E url \in Urls : Within(MaxCalls) /\ Retrieve(url)
    \/ \E url \in Urls : Within(MaxCalls) /\ IsCached(url)

SpecUpsert == Init /\ [][NextUpsert]_vars

\* A store through its whole life: every method of byte_cache.
Next ==
    \/ \E url \in FileUrls, p \in Payloads : Within(MaxFileCalls) /\ Cache(url, p)
    \/ \E url \in FileUrls : Within(MaxFileCalls) /\ Retrieve(url)
    \/ \E url \in FileUrls : Within(MaxFileCalls) /\ IsCached(url)
    \/ Within(MaxFileCalls) /\ Save
    \/ Within(MaxFileCalls) /\ Load
    \/ Within(MaxFileCalls) /\ LoadIndex
    \/ Within(MaxFileCalls) /\ Offload
    \/ Within(MaxFileCalls) /\ Construct
    \/ Within(MaxFileCalls) /\ Split

Spec == Init /\ [][Next]_vars

\* A store through its whole life, on a disk where its file can be cut short.
NextDisk ==
    \/ Next
    \/ \E keep \in {int_width, Len(file.bytes) - 1} :
          Within(MaxFileCalls) /\ Truncate(keep)

SpecDisk == Init /\ [][NextDisk]_vars

\* A tree node: constructed, made a leaf by the caller, then inserted into,
\* searched and split.
NextTree ==
    \/ \E t \in 1..MaxThreshold : NewTree(t)
    \/ AttachLeaf
    \/ \E key \in TreeKeys, value \in Payloads :
          Within(MaxTreeCalls) /\ TreeInsert(key, value)
    \/ \E key \in TreeKeys : Within(MaxTreeCalls) /\ TreeFind(key)
    \/ Within(MaxTreeCalls) /\ TreeSplit

SpecTree == Init /\ [][NextTree]_vars

\* ----------------------------------------------------------- properties
Range(seq) == {seq[i] : i \in 1..Len(seq)}

\* The (key, value) entries of a pair of lists.
Entries(idx, cnt) == {<<idx[i], cnt[i]>> : i \in 1..Min(Len(idx), Len(cnt))}

StrictlyAscending(idx) ==
    \A i \in 1..(Len(idx) - 1) : BytesLess(idx[i], idx[i + 1])

\* Equal lengths, and every position holds an entry as cache() writes it: the
\* digest of an identifier with a compressed payload.
PairedLists(idx, cnt) ==
    /\ Len(idx) = Len(cnt)
    /\ \A i \in 1..Len(idx) :
          /\ \E url \in Urls : idx[i] = hash_url(url)
          /\ IsCompressed(cnt[i])

\* C1: a store that is only cached into is a map from identifier to payload:
\* retrieve(u) gives the payload of the most recent cache(u, .) for every u
\* that was cached and None for every u that never was, in every state and as
\* the result of every retrieve call.
C1_StoreIsMap ==
    /\ \A url \in Urls :
          retrieve_result(index, content, url) = [ret |-> cached[url], exc |-> ""]
    /\ last.op = "retrieve" => (last.ret = cached[last.url] /\ last.exc = "")

\* C1 witness: a retrieve that returned a payload from a store of two entries
\* or more while another identifier was never cached.
C1_Witness ==
    /\ last.op = "retrieve"
    /\ last.ret # None
    /\ Len(index) >= 2
    /\ \E url \in Urls : cached[url] = None

\* C2: after every cache call the index is strictly ascending.
C2_SortInvariant == StrictlyAscending(index)

\* C2 witness: a cache call that inserted a new digest between two others.
C2_Witness ==
    /\ last.op = "cache"
    /\ last.lenBefore = 2
    /\ Len(index) = 3
    /\ index[2] = hash_url(last.url)

\* C5: a cache call for an identifier that was cached before leaves exactly
\* one entry for its digest, holding the new payload, and does not change the
\* number of entries.
C5_IdempotentUpsert ==
    (last.op = "cache" /\ last.before # None) =>
        /\ last.exc = ""
        /\ Len(index) = last.lenBefore
        /\ Len(content) = last.lenBefore
        /\ Cardinality({i \in 1..Len(index) : index[i] = hash_url(last.url)}) = 1
        /\ \A i \in 1..Len(index) :
              index[i] = hash_url(last.url) => content[i] = compress(last.payload)

\* C5 witness: the second cache call gave a payload other than the first.
C5_Witness ==
    /\ last.op = "cache"
    /\ last.before # None
    /\ last.before # Some(last.payload)
    /\ Len(index) >= 2

\* C3: in every state the index and the content have equal length and
\* position i of one belongs with position i of the other; after split() that
\* is so for the two stores it returns.
C3_Claim ==
    /\ attrs => PairedLists(index, content)
    /\ (last.op = "split" /\ last.lenBefore >= 1) =>
          /\ last.exc = ""
          /\ Len(parts) = 2
          /\ PairedLists(parts[1].index, parts[1].content)
          /\ PairedLists(parts[2].index, parts[2].content)

\* C4: after split() of a store of two entries or more the entries of lesser and greater together are the
\* entries the store had, no entry is in both, and every key of lesser is
\* less than every key of greater.
C4_Claim ==
    (last.op = "split" /\ last.lenBefore >= 2) =>
        /\ last.exc = ""
        /\ Len(parts) = 2
        /\ LET E == Entries(last.before[1], last.before[2])
               lesser == Entries(parts[1].index, parts[1].content)
               greater == Entries(parts[2].index, parts[2].content)
           IN  /\ lesser \cup greater = E
               /\ lesser \cap greater = {}
               /\ Len(parts[1].index) + Len(parts[2].index) = Len(last.before[1])
               /\ \A a \in Range(parts[1].index), b \in Range(parts[2].index) :
                     BytesLess(a, b)

LeftKeys == IF node.left_child = "lesser" THEN Range(parts[1].index) ELSE {}
RightKeys == IF node.right_child = "greater" THEN Range(parts[2].index) ELSE {}
PresentKeys ==
    IF node.search_key # None THEN LeftKeys \cup RightKeys
    ELSE IF node.cache = "byte_cache" /\ attrs THEN Range(index)
    ELSE {}

C8_Claim ==
    (last.op = "insert" /\ last.exc = "" /\ node.search_key = None) =>
        Len(index) <= split_threshold

\* C9: with threshold 2, after the inserts of A < B < C in that order into an
\* empty tree the root is internal with search key C, its left store holds
\* A and B and its right store holds C; find(B) returns B's value and find of
\* a key never inserted returns None.
C9_Claim ==
    (/\ split_threshold = 2
     /\ last.op = "insert"
     /\ last.exc = ""
     /\ last.lenBefore = 2
     /\ Len(tlog) = 3
     /\ BytesLess(hash_url(tlog[1]), hash_url(tlog[2]))
     /\ BytesLess(hash_url(tlog[2]), hash_url(tlog[3]))) =>
        /\ node.search_key = hash_url(tlog[3])
        /\ node.left_child = "lesser"
        /\ node.right_child = "greater"
        /\ parts[1].index = <<hash_url(tlog[1]), hash_url(tlog[2])>>
        /\ parts[2].index = <<hash_url(tlog[3])>>
        /\ node_find(node, index, content, attrs, BytesKey(tlog[2]))
              = [ret |-> cached[tlog[2]], exc |-> ""]
        /\ \A url \in Urls \ Range(tlog) :
              node_find(node, index, content, attrs, BytesKey(url))
                 = [ret |-> None, exc |-> ""]

\* The bytes hold what their length fields announce: an entry count of one or
\* more, every key and every value frame complete.
file_consistent(bytes, order) ==
    LET r == load_lists(<<>>, <<>>, bytes, order)
    IN  /\ Len(bytes) >= int_width
        /\ save_bytes(r.index, r.content, order) = bytes

\* C11: load() of a file whose entry count or value lengths announce more
\* bytes than the file holds raises an error: it never returns normally.
C11_Claim ==
    (/\ last.op = "load"
     /\ attrs
     /\ file.exists
     /\ Len(file.bytes) >= int_width
     /\ index_size(file.bytes, byteorder) >= 1
     /\ ~file_consistent(file.bytes, byteorder)) =>
        last.exc # ""

\* C12: a lookup of a key that is not stored, retrieve on a store or find on
\* a tree whose node has a store, returns None without raising.
C12_Claim ==
    (/\ last.op \in {"retrieve", "find"}
     /\ attrs
     /\ hash_url(last.url) \notin Range(index)
     /\ last.op = "find" => node.cache = "byte_cache") =>
        /\ last.exc = ""
        /\ last.ret = None

\* C13: is_cached(url) is false as long as url has not been cached and true
\* from the cache(url, payload) on, whatever is cached afterwards; the call
\* returns that answer.
C13_IsCached ==
    /\ \A url \in Urls : is_cached(index, url) <=> cached[url] # None
    /\ last.op = "is_cached" => last.ret = <<cached[last.url] # None>>

\* C13 witness: is_cached answered true for a url that is not the only one
\* cached, while another url is still not cached.
C13_Witness ==
    /\ last.op = "is_cached"
    /\ last.ret = <<TRUE>>
    /\ Len(index) >= 2
    /\ \E url \in Urls : cached[url] = None /\ ~is_cached(index, url)

\* C14: a node with a search key keeps it for good; a node gets its search
\* key in an insert that took its leaf past split_threshold, and every such
\* insert gives it one.
C14_Step ==
    /\ node.search_key # None => node'.search_key = node.search_key
    /\ (node.search_key = None /\ node'.search_key # None) =>
          /\ last'.op = "insert"
          /\ last'.lenBefore + 1 > split_threshold
    /\ (/\ last'.op = "insert"
        /\ last'.exc = ""
        /\ calls' # calls
        /\ node.search_key = None
        /\ Len(index') > Len(index)
        /\ Len(index') > split_threshold) =>
          node'.search_key # None

C15_Claim ==
    (/\ last.op = "load"
     /\ file.exists
     /\ snap # <<>>
     /\ Len(snap[1]) >= 1
     /\ Len(snap[1]) = Len(snap[2])
     /\ last.before = <<<<>>, <<>>>>) =>
        /\ last.exc = ""
        /\ attrs
        /\ index = snap[1]
        /\ content = snap[2]

C17_Claim ==
    /\ (attrs /\ Len(index) = Len(content)) =>
          LET n == Len(index)
              m == n \div 2
              r == split_slices(index, content)
          IN  /\ r[1].index = SubSeq(index, 1, m)
              /\ r[1].content = SubSeq(content, 1, m)
              /\ r[2].index = SubSeq(index, m + 1, n)
              /\ r[2].content = SubSeq(content, m + 1, n)
    /\ (last.op = "split" /\ last.lenBefore >= 1) =>
          /\ last.exc = ""
          /\ parts = split_slices(last.before[1], last.before[2])

\* C18: split() of a leaf node with entries returns without raising; the node
\* then has the first key of greater as search key, lesser as left child,
\* greater as right child, and no cache.
C18_Claim ==
    (last.op = "node.split" /\ last.lenBefore >= 1) =>
        /\ last.exc = ""
        /\ Len(parts) = 2
        /\ node.search_key = parts[2].index[1]
        /\ node.left_child = "lesser"
        /\ node.right_child = "greater"
        /\ node.cache = "None"

\* C19: on the ascending index of a store, _find_index of a digest that is
\* in index returns its position and True; of one that is not, a position i
\* and False with every key before i less and every key from i on greater
\* (0 for an empty index).
C19_FindIndex ==
    \A url \in Urls :
        LET h == hash_url(url)
            r == find_index(index, h)
            i == r[1]
        IN  /\ i \in 0..Len(index)
            /\ h \in Range(index) => r[2] /\ i < Len(index) /\ index[i + 1] = h
            /\ h \notin Range(index) =>
                  /\ ~r[2]
                  /\ \A j \in 1..i : BytesLess(index[j], h)
                  /\ \A j \in (i + 1)..Len(index) : BytesLess(h, index[j])

\* C19 witness: a store of two keys and a digest that belongs between them.
C19_Witness ==
    /\ Len(index) = 2
    /\ \E url \in Urls : find_index(index, hash_url(url)) = <<1, FALSE>>
    /\ \E url \in Urls : find_index(index, hash_url(url)) = <<1, TRUE>>

\* C20: after load() of a file saved from a store of (key, value) pairs,
\* index and content are what they were before the load followed by the
\* keys and values of the file; the store holds just the file's entries only
\* if it was empty before.
C20_LoadAppends ==
    (/\ last.op = "load"
     /\ last.exc = ""
     /\ attrs
     /\ snap # <<>>
     /\ Len(snap[1]) = Len(snap[2])) =>
        /\ index = last.before[1] \o snap[1]
        /\ content = last.before[2] \o snap[2]
        /\ (index = snap[1] /\ content = snap[2] /\ StrictlyAscending(index)) =>
              last.before = <<<<>>, <<>>>>

\* C20 witness: a load into a store that held an entry, of a file with an
\* entry: the index is no longer ascending.
C20_Witness ==
    /\ last.op = "load"
    /\ last.exc = ""
    /\ last.before[1] # <<>>
    /\ snap # <<>>
    /\ Len(snap[1]) >= 1
    /\ Len(snap[1]) = Len(snap[2])
    /\ index = last.before[1] \o snap[1]
    /\ content = last.before[2] \o snap[2]
    /\ ~StrictlyAscending(index)

====
